---------------------------- MODULE Spec2Model ----------------------------
(***************************************************************************)
(* A model of the pjdfstest migration bookkeeping scripts:                 *)
(*   book/compatibility_report.py  (coverage reconciliation and report)    *)
(*   create_issues.py              (one tracking issue per test directory) *)
(*                                                                         *)
(* Python strings are sequences of one-character strings, so that          *)
(* substring containment, splitting, suffix tests and lexical comparison   *)
(* are computed rather than assumed.                                       *)
(***************************************************************************)
EXTENDS Integers, Sequences, FiniteSets, TLC

VARIABLES
    prog,                      \* which entry point runs: "reconcile", "main", "issues"
    pc,                        \* position in the running code
    tree,                      \* the directory under rust_dir: path -> file (or Absent)
    tests_files,               \* the ids iterated by get_tests_with_and_without_rust_files
    rust_files,                \* set(get_rust_files(..)), in its iteration order
    ti, fi, li,                \* current test, file and line of the scan (0 = none)
    tests_with_rust_files,
    tests_without_rust_files,
    hist,                      \* history of the scan: every open() attempted, every line read
    records,                   \* main: set(get_tests_filenames_from_spec(..)) in iteration order
    gi,                        \* main: number of records grouped so far
    syscalls,                  \* main: the dict, as a sequence of <<key, list of Test>>
    bi,                        \* main: number of blocks printed so far
    out,                       \* main: the printed report, one entry per <details> block
    files,                     \* create_issues: the dict {folder: [file names]}, in order
    fs,                        \* create_issues: what each file of tests/ held when opened
    di, fj,                    \* create_issues: current directory and file (0 = none)
    task_list,                 \* create_issues: the task list of the current directory
    events,                    \* create_issues: the gh calls, their returns, the sleeps
    created,                   \* create_issues: the issues gh has created, in order
    failed_at                  \* where the run raised ("" while it has not)

reconcile_vars == <<tree, tests_files, rust_files, ti, fi, li, tests_with_rust_files,
                    tests_without_rust_files, hist>>
main_vars == <<records, gi, syscalls, bi, out>>
issue_vars == <<files, fs, di, fj, task_list, events, created>>

-----------------------------------------------------------------------------
(* Bounds of the model *)

\* most lines in one corpus file
MaxLines == 2
\* most candidate ids handed to one reconciliation
MaxTests == 2

-----------------------------------------------------------------------------
(* Strings *)

\* str.__contains__ : s in line
Contains(line, s) ==
    \E i \in 0..(Len(line) - Len(s)) : SubSeq(line, i + 1, i + Len(s)) = s

\* str.endswith
EndsWith(s, suffix) ==
    /\ Len(s) >= Len(suffix)
    /\ SubSeq(s, Len(s) - Len(suffix) + 1, Len(s)) = suffix

RECURSIVE Perms(_)
\* every order in which a Python set may be iterated
Perms(S) ==
    IF S = {} THEN {<<>>}
    ELSE UNION {{<<x>> \o p : p \in Perms(S \ {x})} : x \in S}

SeqsUpTo(S, n) == UNION {[1..k -> S] : k \in 0..n}

Range(f) == {f[i] : i \in DOMAIN f}

-----------------------------------------------------------------------------
(* The corpus: files under rust_dir *)

Absent == [kind |-> "absent"]
Unreadable == [kind |-> "unreadable"]
File(lines) == [kind |-> "file", lines |-> lines]

RsExt == <<".", "r", "s">>

PathA == <<"a", ".", "r", "s">>
PathB == <<"d", "/", "b", ".", "r", "s">>
PathN == <<"n", ".", "r", "s", "t">>
Paths == {PathA, PathB, PathN}

LineHit1 == <<"x", "o", "/", "1", "y", "\n">>
LineHalf == <<"o", "/", "\n">>
LineRest == <<"2", "\n">>
CorpusLines == {LineHit1, LineHalf, LineRest}

Id1 == <<"o", "/", "1">>
Id2 == <<"o", "/", "2">>
IdEmpty == <<>>
CandidateIds == {Id1, Id2, IdEmpty}

Contents == SeqsUpTo(CorpusLines, MaxLines)

\* a.rs holds any of the contents, d/b.rs at most one line, n.rst the line of Id1
Trees ==
    {t \in [Paths -> {Absent, Unreadable} \cup {File(c) : c \in Contents}] :
        /\ t[PathB] \in {Absent, Unreadable} \cup {File(<<l>>) : l \in CorpusLines}
        /\ t[PathN] \in {Absent, File(<<LineHit1>>)}}

\* get_rust_files: the walked files whose name ends with ".rs"
get_rust_files(t) == {p \in DOMAIN t : t[p].kind # "absent" /\ EndsWith(p, RsExt)}

-----------------------------------------------------------------------------
(* get_tests_with_and_without_rust_files, one step per open / line read *)

InitCommon ==
    /\ rust_files = <<>>
    /\ ti = 0 /\ fi = 0 /\ li = 0
    /\ tests_with_rust_files = {}
    /\ tests_without_rust_files = {}
    /\ hist = <<>>
    /\ records = <<>>
    /\ gi = 0
    /\ syscalls = <<>>
    /\ bi = 0
    /\ out = <<>>
    /\ failed_at = ""

InitNoIssues ==
    /\ files = <<>>
    /\ fs = <<>>
    /\ di = 0 /\ fj = 0
    /\ task_list = <<>>
    /\ events = <<>>
    /\ created = <<>>

InitReconcile ==
    /\ prog = "reconcile"
    /\ pc = "get_rust_files"
    /\ tree \in Trees
    /\ tests_files \in SeqsUpTo(CandidateIds, MaxTests)
    /\ InitCommon
    /\ InitNoIssues

\* line 30: rust_files = set(get_rust_files(rust_dir))
GetRustFiles ==
    /\ pc = "get_rust_files"
    /\ rust_files' \in Perms(get_rust_files(tree))
    /\ pc' = "for_test"
    /\ UNCHANGED <<prog, issue_vars, tree, tests_files, ti, fi, li, tests_with_rust_files,
                   tests_without_rust_files, hist, main_vars, failed_at>>

\* a reconciliation that remembers the verdict of an id it has already scanned
ForTest_Cached ==
    /\ pc = "for_test"
    /\ IF ti < Len(tests_files)
         THEN /\ ti' = ti + 1
              /\ fi' = 0
              /\ pc' = IF tests_files[ti + 1] \in
                            tests_with_rust_files \cup tests_without_rust_files
                         THEN "for_test" ELSE "any"
         ELSE /\ pc' = IF prog = "main" THEN "group" ELSE "returned"
              /\ UNCHANGED <<ti, fi>>
    /\ UNCHANGED <<prog, issue_vars, tree, tests_files, rust_files, li, tests_with_rust_files,
                   tests_without_rust_files, hist, main_vars, failed_at>>

\* line 33: the for loop takes the next test, or ends and line 39 returns
ForTest ==
    /\ pc = "for_test"
    /\ IF ti < Len(tests_files)
         THEN /\ ti' = ti + 1
              /\ fi' = 0
              /\ pc' = "any"
         ELSE /\ pc' = IF prog = "main" THEN "group" ELSE "returned"
              /\ UNCHANGED <<ti, fi>>
    /\ UNCHANGED <<prog, issue_vars, tree, tests_files, rust_files, li, tests_with_rust_files,
                   tests_without_rust_files, hist, main_vars, failed_at>>

\* the else branch taken per file that did not match, not once per test
AnyNext_ElsePerFile ==
    /\ pc = "any"
    /\ IF fi < Len(rust_files)
         THEN /\ fi' = fi + 1
              /\ pc' = "open"
              /\ tests_without_rust_files' =
                     IF fi >= 1 THEN tests_without_rust_files \cup {tests_files[ti]}
                     ELSE tests_without_rust_files
         ELSE /\ tests_without_rust_files' =
                     tests_without_rust_files \cup {tests_files[ti]}
              /\ pc' = "for_test"
              /\ UNCHANGED fi
    /\ UNCHANGED <<prog, issue_vars, tree, tests_files, rust_files, ti, li, tests_with_rust_files,
                   hist, main_vars, failed_at>>

\* line 34: any(...) asks the generator for the next file; exhausted means False (line 37)
AnyNext ==
    /\ pc = "any"
    /\ IF fi < Len(rust_files)
         THEN /\ fi' = fi + 1
              /\ pc' = "open"
              /\ UNCHANGED tests_without_rust_files
         ELSE /\ tests_without_rust_files' =
                     tests_without_rust_files \cup {tests_files[ti]}
              /\ pc' = "for_test"
              /\ UNCHANGED fi
    /\ UNCHANGED <<prog, issue_vars, tree, tests_files, rust_files, ti, li, tests_with_rust_files,
                   hist, main_vars, failed_at>>

\* an open() whose failure is swallowed and the file skipped
OpenFile_SkipUnreadable ==
    /\ pc = "open"
    /\ hist' = Append(hist, [op |-> "open", t |-> ti, path |-> rust_files[fi], n |-> 0])
    /\ IF tree[rust_files[fi]].kind = "file"
         THEN /\ li' = 0
              /\ pc' = "read"
         ELSE /\ pc' = "any"
              /\ UNCHANGED li
    /\ UNCHANGED <<prog, issue_vars, tree, tests_files, rust_files, ti, fi, tests_with_rust_files,
                   tests_without_rust_files, main_vars, failed_at>>

\* line 22: open(file_path); a file that cannot be opened raises out of the whole call
OpenFile ==
    /\ pc = "open"
    /\ hist' = Append(hist, [op |-> "open", t |-> ti, path |-> rust_files[fi], n |-> 0])
    /\ IF tree[rust_files[fi]].kind = "file"
         THEN /\ li' = 0
              /\ pc' = "read"
              /\ UNCHANGED failed_at
         ELSE /\ pc' = "error"
              /\ failed_at' = "reconcile"
              /\ UNCHANGED li
    /\ UNCHANGED <<prog, issue_vars, tree, tests_files, rust_files, ti, fi, tests_with_rust_files,
                   tests_without_rust_files, main_vars>>

\* exact match of the line's text instead of containment
search_hit_exact(line, string) == line = string \o <<"\n">>

\* the test string in the line: line 24
search_hit(line, string) == Contains(line, string)

\* lines 23-26: read the next line; a hit returns True (line 35), the end of file False
ReadLine ==
    /\ pc = "read"
    /\ LET lines == tree[rust_files[fi]].lines IN
       IF li < Len(lines)
         THEN /\ li' = li + 1
              /\ hist' = Append(hist, [op |-> "read", t |-> ti, path |-> rust_files[fi],
                                        n |-> li + 1])
              /\ IF search_hit(lines[li + 1], tests_files[ti])
                   THEN /\ tests_with_rust_files' =
                               tests_with_rust_files \cup {tests_files[ti]}
                        /\ pc' = "for_test"
                   ELSE /\ pc' = "read"
                        /\ UNCHANGED tests_with_rust_files
         ELSE /\ pc' = "any"
              /\ UNCHANGED <<li, hist, tests_with_rust_files>>
    /\ UNCHANGED <<prog, issue_vars, tree, tests_files, rust_files, ti, fi,
                   tests_without_rust_files, main_vars, failed_at>>

-----------------------------------------------------------------------------
(* main of compatibility_report.py *)

\* str.split(sep) for a one-character separator
RECURSIVE SplitOn(_, _)
SplitOn(s, sep) ==
    IF \A i \in DOMAIN s : s[i] # sep
      THEN <<s>>
      ELSE LET i == CHOOSE k \in DOMAIN s : s[k] = sep /\ \A j \in 1..(k - 1) : s[j] # sep
           IN  <<SubSeq(s, 1, i - 1)>> \o SplitOn(SubSeq(s, i + 1, Len(s)), sep)

\* ord() of the characters that occur in names
CodePoint ==
    ("\t" :> 9) @@ ("\n" :> 10) @@ ("/" :> 47) @@ ("0" :> 48) @@ ("1" :> 49) @@
    ("2" :> 50) @@ ("B" :> 66) @@ ("a" :> 97) @@ ("x" :> 120) @@ ("y" :> 121)

\* str.__lt__ : comparison by code point, a proper prefix first
RECURSIVE StrLess(_, _)
StrLess(a, b) ==
    IF b = <<>> THEN FALSE
    ELSE IF a = <<>> THEN TRUE
    ELSE IF Head(a) = Head(b) THEN StrLess(Tail(a), Tail(b))
    ELSE CodePoint[Head(a)] < CodePoint[Head(b)]

\* one step of the stable sort: x goes after every entry whose key is not greater
InsertByKey(sorted, x) ==
    LET pos == Cardinality({i \in DOMAIN sorted : ~ StrLess(x[1], sorted[i][1])})
    IN  SubSeq(sorted, 1, pos) \o <<x>> \o SubSeq(sorted, pos + 1, Len(sorted))

RECURSIVE SortPrefix(_, _)
SortPrefix(pairs, n) ==
    IF n = 0 THEN <<>> ELSE InsertByKey(SortPrefix(pairs, n - 1), pairs[n])

\* a sort that leaves the insertion order as it is
SortByKey_Unsorted(pairs) == pairs

\* sorted(..) / list.sort(key=..) on <<key, value>> pairs: ascending by key, stable
SortByKey(pairs) == SortPrefix(pairs, Len(pairs))

\* line 78: sorted(syscalls.items()); the keys of a dict differ, so the key decides
SortedItems(d) == SortByKey(d)

\* line 79: tests.sort(key=lambda t: t.name)
SortTests(tests) ==
    LET keyed == SortByKey([i \in DOMAIN tests |-> <<tests[i].name, tests[i]>>])
    IN  [i \in DOMAIN keyed |-> keyed[i][2]]

\* lines 50-54: the dataclass Test
Test(name, has_rust_file, description) ==
    [name |-> name, has_rust_file |-> has_rust_file, description |-> description]

\* lines 67-70: syscalls[syscall].append(test), the key created on first use
DictAppend(d, key, test) ==
    IF \E i \in DOMAIN d : d[i][1] = key
      THEN [i \in DOMAIN d |->
              IF d[i][1] = key THEN <<key, Append(d[i][2], test)>> ELSE d[i]]
      ELSE Append(d, <<key, <<test>>>>)

\* most records in the manifest
MaxRecords == 3

Rec1    == <<"a", "/", "1", "\t", "x", "\n">>
Rec10   == <<"a", "/", "1", "0", "\t", "x", "\n">>
Rec2    == <<"a", "/", "2", "\t", "y", "\n">>
RecB    == <<"B", "/", "1", "\t", "x", "\n">>
Rec1y   == <<"a", "/", "1", "\t", "y", "\n">>
RecNoSlash  == <<"a", "1", "\t", "x", "\n">>
RecTwoSlash == <<"a", "/", "B", "/", "1", "\t", "x", "\n">>
RecNoTab    == <<"a", "/", "1", "\n">>
RecTwoTabs  == <<"a", "/", "1", "\t", "x", "\t", "y", "\n">>
ManifestLines ==
    {Rec1, Rec10, Rec2, RecB, Rec1y, RecNoSlash, RecTwoSlash, RecNoTab, RecTwoTabs}

LineA10 == <<"a", "/", "1", "0", "\n">>
LineB1  == <<"B", "/", "1", "\n">>
LineA2  == <<"a", "/", "2", "\n">>

MainTrees ==
    {t \in [Paths -> {Absent, Unreadable, File(<<LineA10>>), File(<<LineB1>>),
                      File(<<LineA2>>)}] :
        /\ t[PathN] = Absent
        /\ t[PathB] \in {Absent, File(<<LineA2>>)}}

\* lines 8-11: one tuple per line of the manifest, the line split at its tabs
get_tests_filenames_from_spec(manifest) ==
    [i \in DOMAIN manifest |-> SplitOn(manifest[i], "\t")]

InitMain ==
    /\ prog = "main"
    /\ pc = "read_manifest"
    /\ tree \in MainTrees
    /\ tests_files = <<>>
    /\ InitCommon
    /\ InitNoIssues

\* lines 60-62: tests_files = set(..), and the ids handed on are its first fields
ReadManifest ==
    /\ pc = "read_manifest"
    /\ \E manifest \in SeqsUpTo(ManifestLines, MaxRecords) :
          records' \in Perms(Range(get_tests_filenames_from_spec(manifest)))
    /\ tests_files' = [i \in DOMAIN records' |-> records'[i][1]]
    /\ pc' = "get_rust_files"
    /\ UNCHANGED <<prog, issue_vars, tree, rust_files, ti, fi, li, tests_with_rust_files,
                   tests_without_rust_files, hist, gi, syscalls, bi, out, failed_at>>

\* a grouping that passes over a record it cannot take apart
Group_SkipMalformed ==
    /\ pc = "group"
    /\ IF gi < Len(records)
         THEN LET r == records[gi + 1]
                  parts == SplitOn(r[1], "/")
              IN  /\ gi' = gi + 1
                  /\ pc' = "group"
                  /\ syscalls' =
                        IF Len(r) # 2 \/ Len(parts) # 2 THEN syscalls
                        ELSE DictAppend(syscalls, parts[1],
                                Test(parts[2], r[1] \in tests_with_rust_files, r[2]))
         ELSE /\ pc' = "print"
              /\ UNCHANGED <<gi, syscalls>>
    /\ UNCHANGED <<prog, issue_vars, reconcile_vars, records, bi, out, failed_at>>

\* a grouping that keeps one test per name in a category
Group_OnePerName ==
    /\ pc = "group"
    /\ IF gi < Len(records)
         THEN LET r == records[gi + 1] IN
              IF Len(r) # 2 \/ Len(SplitOn(r[1], "/")) # 2
                THEN /\ pc' = "error"
                     /\ failed_at' = "group"
                     /\ UNCHANGED <<gi, syscalls>>
                ELSE LET parts == SplitOn(r[1], "/") IN
                     /\ gi' = gi + 1
                     /\ pc' = "group"
                     /\ syscalls' =
                           IF \E i \in DOMAIN syscalls :
                                 /\ syscalls[i][1] = parts[1]
                                 /\ \E k \in DOMAIN syscalls[i][2] :
                                       syscalls[i][2][k].name = parts[2]
                             THEN syscalls
                             ELSE DictAppend(syscalls, parts[1],
                                     Test(parts[2], r[1] \in tests_with_rust_files, r[2]))
                     /\ UNCHANGED failed_at
         ELSE /\ pc' = "print"
              /\ UNCHANGED <<gi, syscalls, failed_at>>
    /\ UNCHANGED <<prog, issue_vars, reconcile_vars, records, bi, out>>

\* lines 65-76: one record grouped per step; unpacking a tuple that has not two
\* fields, or an id that split("/") does not cut in two, raises ValueError
Group ==
    /\ pc = "group"
    /\ IF gi < Len(records)
         THEN LET r == records[gi + 1] IN
              IF Len(r) # 2 \/ Len(SplitOn(r[1], "/")) # 2
                THEN /\ pc' = "error"
                     /\ failed_at' = "group"
                     /\ UNCHANGED <<gi, syscalls>>
                ELSE LET parts == SplitOn(r[1], "/") IN
                     /\ gi' = gi + 1
                     /\ pc' = "group"
                     /\ syscalls' = DictAppend(syscalls, parts[1],
                             Test(parts[2], r[1] \in tests_with_rust_files, r[2]))
                     /\ UNCHANGED failed_at
         ELSE /\ pc' = "print"
              /\ UNCHANGED <<gi, syscalls, failed_at>>
    /\ UNCHANGED <<prog, issue_vars, reconcile_vars, records, bi, out>>

\* a header that counts the tests not yet converted
Block_CountsMissing(syscall, tests) ==
    [syscall |-> syscall,
     value   |-> Cardinality({i \in DOMAIN tests : ~ tests[i].has_rust_file}),
     max     |-> Len(tests),
     rows    |-> [i \in DOMAIN tests |->
                    [name |-> tests[i].name,
                     description |-> tests[i].description,
                     converted |-> IF tests[i].has_rust_file THEN "Yes" ELSE "No"]]]

\* lines 80-99: the text of one block, kept as its fields
Block(syscall, tests) ==
    [syscall |-> syscall,
     value   |-> Cardinality({i \in DOMAIN tests : tests[i].has_rust_file}),
     max     |-> Len(tests),
     rows    |-> [i \in DOMAIN tests |->
                    [name |-> tests[i].name,
                     description |-> tests[i].description,
                     converted |-> IF tests[i].has_rust_file THEN "Yes" ELSE "No"]]]

\* lines 78-99: one block printed per step, in the order of sorted(syscalls.items());
\* tests.sort sorts the list held by the dict in place
PrintBlock ==
    /\ pc = "print"
    /\ IF bi < Len(syscalls)
         THEN LET item == SortedItems(syscalls)[bi + 1]
                  tests == SortTests(item[2])
              IN  /\ syscalls' = [i \in DOMAIN syscalls |->
                         IF syscalls[i][1] = item[1] THEN <<item[1], tests>>
                         ELSE syscalls[i]]
                  /\ out' = Append(out, Block(item[1], tests))
                  /\ bi' = bi + 1
                  /\ pc' = "print"
         ELSE /\ pc' = "done"
              /\ UNCHANGED <<out, bi, syscalls>>
    /\ UNCHANGED <<prog, issue_vars, reconcile_vars, records, gi, failed_at>>

-----------------------------------------------------------------------------
(* create_issues.py *)

\* most entries in the listing of tests/
MaxEntries == 2
\* line 25: the number of characters read from each file
HeaderLen == 600

DescOpen == <<"d", "e", "s", "c", "=", "\"">>
UnknownDescription ==
    <<"U", "n", "k", "n", "o", "w", "n", " ",
      "d", "e", "s", "c", "r", "i", "p", "t", "i", "o", "n">>
TaskPrefix == <<"-", " ", "[", " ", "]", " ">>
TaskSep == <<" ", "|", " ">>

\* a read that takes the whole file
read_header_whole(content) == content

\* line 25: open(path).read(600)
read_header(content) == SubSeq(content, 1, IF Len(content) < HeaderLen THEN Len(content) ELSE HeaderLen)

Least(S) == CHOOSE x \in S : \A y \in S : x <= y

\* where (.*?)" ends when the group starts at i: at the first quote, which no
\* newline may precede ("." does not match a newline); 0 when there is none
GroupEnd(h, i) ==
    LET stops == {j \in i..Len(h) : h[j] = "\"" \/ h[j] = "\n"}
    IN  IF stops = {} THEN 0
        ELSE IF h[Least(stops)] = "\"" THEN Least(stops) ELSE 0

NoMatch == [matched |-> FALSE, group |-> <<>>]

\* the positions at which the pattern matches
MatchStarts(h) ==
    {p \in 1..(Len(h) - Len(DescOpen) + 1) :
        /\ SubSeq(h, p, p + Len(DescOpen) - 1) = DescOpen
        /\ GroupEnd(h, p + Len(DescOpen)) # 0}

\* line 26: re.search('desc="(.*?)"', header), the leftmost match
re_search(header) ==
    IF MatchStarts(header) = {} THEN NoMatch
    ELSE LET p == Least(MatchStarts(header)) IN
         [matched |-> TRUE,
          group |-> SubSeq(header, p + Len(DescOpen), GroupEnd(header, p + Len(DescOpen)) - 1)]

\* line 27: the f-string of one task
task_line(file, match) ==
    TaskPrefix \o file \o TaskSep \o
        (IF match.matched THEN match.group ELSE UnknownDescription)

RECURSIVE Join(_, _)
\* "\n".join(task_list)
Join(lines, sep) ==
    IF lines = <<>> THEN <<>>
    ELSE IF Len(lines) = 1 THEN lines[1]
    ELSE lines[1] \o sep \o Join(Tail(lines), sep)

\* lines 28-35: the gh command; the body kept as the two fields of the template
gh_cmd(syscall, tasks) ==
    [title |-> <<"R", "e", "w", "r", "i", "t", "e", " ">> \o syscall \o
               <<" ", "t", "e", "s", "t", "s">>,
     body |-> [syscall |-> syscall, task_list |-> Join(tasks, <<"\n">>)],
     label |-> "rewrite",
     milestone |-> "Rewrite tests"]

DirO == <<"o">>
DirC == <<"c">>
TopFile == <<"f">>
File1 == <<"1", ".", "t">>
File2 == <<"2", ".", "t">>

HdrDesc     == <<"d", "e", "s", "c", "=", "\"", "a", "b", "\"", "\n">>
HdrNone     == <<"x", "\n">>
HdrInner    == <<"#", "\n", "d", "e", "s", "c", "=", "\"", "a", "\"", "b", "\"">>
HdrNewline  == <<"d", "e", "s", "c", "=", "\"", "a", "\n", "b", "\"">>
Filler(n)   == [i \in 1..n |-> "z"]
\* a field whose closing quote is the last character read, and one whose closing
\* quote is the first character not read
HdrAtEnd    == Filler(HeaderLen - 9) \o <<"d", "e", "s", "c", "=", "\"", "a", "b", "\"", "\n">>
HdrLate     == Filler(HeaderLen - 8) \o <<"d", "e", "s", "c", "=", "\"", "a", "b", "\"", "\n">>
HdrEmpty    == <<"d", "e", "s", "c", "=", "\"", "\"", "x">>
Headers == {HdrDesc, HdrNone, HdrInner, HdrNewline, HdrAtEnd, HdrLate, HdrEmpty}

\* a file of tests/ that can be opened, with its text
Text(h) == [kind |-> "text", text |-> h]

\* the files a directory may list, in any order
FileLists == UNION {Perms(S) : S \in SUBSET {File1, File2}}

TreeEntries ==
    {[type |-> "directory", name |-> d, contents |-> c] : d \in {DirO, DirC}, c \in FileLists}
    \cup {[type |-> "file", name |-> TopFile, contents |-> <<>>]}

\* what tree -J may list for tests/: entries with different names
TreeListings ==
    {q \in SeqsUpTo(TreeEntries, MaxEntries) :
        \A i, j \in DOMAIN q : i # j => q[i].name # q[j].name}

\* line 10: the dict comprehension, the directories of the listing in their order
files_of(listing) ==
    LET dirs == SelectSeq(listing, LAMBDA e : e.type = "directory")
    IN  [i \in DOMAIN dirs |-> <<dirs[i].name, dirs[i].contents>>]

InitIssues ==
    /\ prog = "issues"
    /\ pc = "tree"
    /\ tree = [p \in Paths |-> Absent]
    /\ tests_files = <<>>
    /\ InitCommon
    /\ InitNoIssues

\* lines 8-10: the listing of tests/ is read and cut down to its directories
ListTests ==
    /\ pc = "tree"
    /\ \E listing \in TreeListings : files' = files_of(listing)
    /\ pc' = "for_syscall"
    /\ UNCHANGED <<prog, reconcile_vars, main_vars, fs, di, fj, task_list, events,
                   created, failed_at>>

\* lines 21-22: the next directory, with an empty task list; the script ends after the last
ForSyscall ==
    /\ pc = "for_syscall"
    /\ IF di < Len(files)
         THEN /\ di' = di + 1
              /\ fj' = 0
              /\ task_list' = <<>>
              /\ pc' = "for_file"
         ELSE /\ pc' = "done"
              /\ UNCHANGED <<di, fj, task_list>>
    /\ UNCHANGED <<prog, reconcile_vars, main_vars, files, fs, events, created, failed_at>>

\* lines 23-27: the next file of the directory is opened, its header searched and
\* its task appended; a file that cannot be opened raises out of the script
ReadHeader ==
    /\ pc = "for_file"
    /\ IF fj < Len(files[di][2])
         THEN LET file == files[di][2][fj + 1] IN
              \E content \in {Text(h) : h \in Headers} \cup {Unreadable} :
                  /\ fs' = (<<files[di][1], file>> :> content) @@ fs
                  /\ IF content = Unreadable
                       THEN /\ pc' = "error"
                            /\ failed_at' = "open"
                            /\ UNCHANGED <<fj, task_list>>
                       ELSE /\ fj' = fj + 1
                            /\ task_list' = Append(task_list,
                                   task_line(file, re_search(read_header(content.text))))
                            /\ pc' = "for_file"
                            /\ UNCHANGED failed_at
         ELSE /\ pc' = "create"
              /\ UNCHANGED <<fs, fj, task_list, failed_at>>
    /\ UNCHANGED <<prog, reconcile_vars, main_vars, files, di, events, created>>

\* lines 28-36: gh issue create is called for the directory
GhIssueCreate ==
    /\ pc = "create"
    /\ events' = Append(events, [ev |-> "call", dir |-> files[di][1]])
    /\ pc' = "wait_gh"
    /\ UNCHANGED <<prog, reconcile_vars, main_vars, files, fs, di, fj, task_list,
                   created, failed_at>>

\* a dispatch that goes on to the next directory after a failed call
GhReturns_Isolated ==
    /\ pc = "wait_gh"
    /\ \E ok \in BOOLEAN :
          /\ events' = Append(events, [ev |-> IF ok THEN "ok" ELSE "fail", dir |-> files[di][1]])
          /\ created' = IF ok THEN Append(created, gh_cmd(files[di][1], task_list))
                        ELSE created
    /\ pc' = "sleep"
    /\ UNCHANGED <<prog, reconcile_vars, main_vars, files, fs, di, fj, task_list, failed_at>>

\* line 36: check_output returns when gh has created the issue, and raises
\* CalledProcessError when gh exits non-zero
GhReturns ==
    /\ pc = "wait_gh"
    /\ \E ok \in BOOLEAN :
          IF ok
            THEN /\ events' = Append(events, [ev |-> "ok", dir |-> files[di][1]])
                 /\ created' = Append(created, gh_cmd(files[di][1], task_list))
                 /\ pc' = "sleep"
                 /\ UNCHANGED failed_at
            ELSE /\ events' = Append(events, [ev |-> "fail", dir |-> files[di][1]])
                 /\ pc' = "error"
                 /\ failed_at' = "gh"
                 /\ UNCHANGED created
    /\ UNCHANGED <<prog, reconcile_vars, main_vars, files, fs, di, fj, task_list>>

\* line 37: sleep(10)
Sleep ==
    /\ pc = "sleep"
    /\ events' = Append(events, [ev |-> "sleep", dir |-> files[di][1]])
    /\ pc' = "for_syscall"
    /\ UNCHANGED <<prog, reconcile_vars, main_vars, files, fs, di, fj, task_list,
                   created, failed_at>>

vars == <<prog, pc, reconcile_vars, main_vars, issue_vars, failed_at>>

NextReconcile == GetRustFiles \/ ForTest \/ AnyNext \/ OpenFile \/ ReadLine

SpecReconcile == InitReconcile /\ [][NextReconcile]_vars

NextMain == ReadManifest \/ NextReconcile \/ Group \/ PrintBlock

SpecMain == InitMain /\ [][NextMain]_vars

NextIssues == ListTests \/ ForSyscall \/ ReadHeader \/ GhIssueCreate \/ GhReturns \/ Sleep

SpecIssues == InitIssues /\ [][NextIssues]_vars

-----------------------------------------------------------------------------
(* Vocabulary of the properties, stated without the operators of the model *)

\* s occurs in line at some position
Occurs(s, line) ==
    \E k \in 1..(Len(line) + 1) :
        \A j \in 1..Len(s) : k + j - 1 <= Len(line) /\ line[k + j - 1] = s[j]

IsRsPath(p) ==
    /\ Len(p) >= 3
    /\ p[Len(p) - 2] = "." /\ p[Len(p) - 1] = "r" /\ p[Len(p)] = "s"

\* file p exists, can be read, and one of its lines holds id
FileCovers(p, id) ==
    /\ tree[p].kind = "file"
    /\ \E n \in 1..Len(tree[p].lines) : Occurs(id, tree[p].lines[n])

UnreadableRs == {p \in Paths : tree[p].kind = "unreadable" /\ IsRsPath(p)}

\* the scan of the t-th candidate id is over
ScanDone(t) ==
    \/ t < ti
    \/ t = ti /\ pc \notin {"any", "open", "read"} /\ failed_at # "reconcile"

OpensOf(t) == SelectSeq(hist, LAMBDA e : e.op = "open" /\ e.t = t)

IsHit(e) == e.op = "read" /\ Occurs(tests_files[e.t], tree[e.path].lines[e.n])

-----------------------------------------------------------------------------
(* C1: when get_tests_with_and_without_rust_files returns, the two returned
   sets partition the candidate ids: their union is the set of all candidate
   ids and their intersection is empty. *)
C1_Partition ==
    pc = "returned" =>
        /\ tests_with_rust_files \cup tests_without_rust_files = Range(tests_files)
        /\ tests_with_rust_files \cap tests_without_rust_files = {}

C1_Witness ==
    /\ pc = "returned"
    /\ tests_with_rust_files # {}
    /\ tests_without_rust_files # {}

(* C2: a candidate id is in the covered set if and only if some .rs file under
   the root has a line that contains the id as a literal substring; with no
   such file (an empty corpus) the covered set is empty. *)
C2_CoveredIffContained ==
    pc = "returned" =>
        \A id \in Range(tests_files) :
            id \in tests_with_rust_files <=>
                \E p \in Paths : IsRsPath(p) /\ FileCovers(p, id)

\* an id covered by a line that is not the id itself, and one left uncovered
\* although a file that is not a .rs file holds it
C2_Witness ==
    /\ pc = "returned"
    /\ Id1 \in tests_with_rust_files
    /\ Id2 \in tests_without_rust_files
    /\ tree[PathN].kind = "file"

(* C6, as claimed: with a file in the corpus that cannot be opened, and at
   least one candidate id, reconciliation never completes normally. (Stated
   for candidate ids that are not the empty string, which every line holds.) *)
C6_NeverCompletesWithUnreadable ==
    (/\ pc = "returned"
     /\ tests_files # <<>>
     /\ \A t \in DOMAIN tests_files : tests_files[t] # <<>>) => UnreadableRs = {}

(* C6, amended: an open() that fails aborts the whole reconciliation at once
   (the file is not skipped, nothing is returned), and reconciliation aborts
   for no other reason; it completes normally with an unreadable file in the
   corpus only when that file was never opened, every candidate id having
   been found in a file iterated before it. *)
C6_AbortsWhenOpenFails ==
    /\ \A i \in DOMAIN hist :
          (hist[i].op = "open" /\ tree[hist[i].path].kind = "unreadable") =>
              i = Len(hist) /\ pc = "error" /\ failed_at = "reconcile"
    /\ failed_at = "reconcile" =>
          /\ pc = "error"
          /\ hist # <<>>
          /\ hist[Len(hist)].op = "open"
          /\ tree[hist[Len(hist)].path].kind = "unreadable"
    /\ pc = "returned" =>
          \A k \in DOMAIN rust_files :
              tree[rust_files[k]].kind = "unreadable" =>
                  \A t \in DOMAIN tests_files :
                      \E j \in 1..(k - 1) : FileCovers(rust_files[j], tests_files[t])

\* the abort happens after an earlier id was already classified
C6_Witness ==
    /\ pc = "error"
    /\ failed_at = "reconcile"
    /\ ti = 2
    /\ tests_with_rust_files # {}

(* C10: for each candidate id the files are opened one at a time in the
   iteration order of the set, each at most once, and their lines are read
   in order; nothing happens for an id after the first line that holds it;
   an id that no file holds has every file of the corpus opened exactly
   once; and every id, also one scanned before, starts again at the first
   file. *)
C10_ShortCircuitFreshScan ==
    /\ \A t \in 1..ti :
          LET o == OpensOf(t) IN
          /\ Len(o) <= Len(rust_files)
          /\ \A k \in DOMAIN o : o[k].path = rust_files[k]
    /\ \A i \in DOMAIN hist :
          hist[i].op = "read" =>
              /\ i > 1
              /\ hist[i - 1].t = hist[i].t
              /\ hist[i - 1].path = hist[i].path
              /\ hist[i - 1].n = hist[i].n - 1
    /\ \A i \in DOMAIN hist :
          IsHit(hist[i]) => \A j \in (i + 1)..Len(hist) : hist[j].t # hist[i].t
    /\ \A t \in 1..ti :
          (ScanDone(t) /\ ~ \E i \in DOMAIN hist : hist[i].t = t /\ IsHit(hist[i])) =>
              \A p \in Range(rust_files) :
                  Cardinality({i \in DOMAIN hist :
                      hist[i].op = "open" /\ hist[i].t = t /\ hist[i].path = p}) = 1
    /\ \A t \in 1..ti :
          (ScanDone(t) /\ rust_files # <<>>) =>
              \E i \in DOMAIN hist :
                  hist[i].op = "open" /\ hist[i].t = t /\ hist[i].path = rust_files[1]

\* the same id scanned twice, found each time on the first line of a file
\* that has a second line, with a second file left unopened
C10_Witness ==
    /\ pc = "returned"
    /\ Len(tests_files) = 2
    /\ tests_files[1] = tests_files[2]
    /\ Len(rust_files) = 2
    /\ Len(OpensOf(1)) = 1
    /\ Len(OpensOf(2)) = 1
    /\ tree[rust_files[1]].kind = "file"
    /\ Len(tree[rust_files[1]].lines) = 2
    /\ Len(hist) = 4

-----------------------------------------------------------------------------
(* Vocabulary of the report properties *)

\* a <= b in lexical order by code point
LexLeq(a, b) ==
    \E k \in 0..Len(a) :
        /\ k <= Len(b)
        /\ \A j \in 1..k : a[j] = b[j]
        /\ \/ k = Len(a)
           \/ k < Len(b) /\ CodePoint[a[k + 1]] < CodePoint[b[k + 1]]

\* id is cat, a "/", then name
IsCatName(id, cat, name) ==
    \E i \in DOMAIN id :
        /\ id[i] = "/"
        /\ cat = SubSeq(id, 1, i - 1)
        /\ name = SubSeq(id, i + 1, Len(id))

WellFormedId(id) == Cardinality({i \in DOMAIN id : id[i] = "/"}) = 1

ManifestRead == pc # "read_manifest"

RowPositions == UNION {{<<b, k>> : k \in DOMAIN out[b].rows} : b \in DOMAIN out}

\* the row at position bk is the row of record r
RowIsOf(bk, r) ==
    LET blk == out[bk[1]]
        row == blk.rows[bk[2]]
    IN  /\ Len(r) = 2
        /\ IsCatName(r[1], blk.syscall, row.name)
        /\ row.description = r[2]
        /\ row.converted = IF r[1] \in tests_with_rust_files THEN "Yes" ELSE "No"

(* C3: the blocks of the report are in ascending lexical order of category
   name, no category in two blocks and, once the report is complete, every
   category of the manifest in one; the rows of a block are in ascending
   lexical order of test name; whatever the order the records came in. *)
C3_ReportSorted ==
    /\ \A b1, b2 \in DOMAIN out :
          b1 < b2 => /\ LexLeq(out[b1].syscall, out[b2].syscall)
                     /\ out[b1].syscall # out[b2].syscall
    /\ \A b \in DOMAIN out : \A k1, k2 \in DOMAIN out[b].rows :
          k1 < k2 => LexLeq(out[b].rows[k1].name, out[b].rows[k2].name)
    /\ pc = "done" =>
          \A r \in Range(records) :
              \E b \in DOMAIN out : \E i \in DOMAIN r[1] :
                  r[1][i] = "/" /\ out[b].syscall = SubSeq(r[1], 1, i - 1)

\* records iterated as a/2, a/10, B/1 and printed as B: 1 then a: 10, 2
C3_Witness ==
    /\ pc = "done"
    /\ Len(records) = 3
    /\ records[1][1] = <<"a", "/", "2">>
    /\ records[2][1] = <<"a", "/", "1", "0">>
    /\ records[3][1] = <<"B", "/", "1">>
    /\ Len(out) = 2
    /\ out[1].syscall = <<"B">>
    /\ out[2].rows[1].name = <<"1", "0">>
    /\ out[2].rows[2].name = <<"2">>

(* C4: in every block the progress value is the number of tests of that
   category whose id is covered, which is the number of rows marked Yes;
   max is the number of rows; value never exceeds max. *)
C4_ProgressCounts ==
    \A b \in DOMAIN out :
        /\ out[b].value =
              Cardinality({k \in DOMAIN out[b].rows : out[b].rows[k].converted = "Yes"})
        /\ out[b].value =
              Cardinality({r \in Range(records) :
                  /\ r[1] \in tests_with_rust_files
                  /\ \E i \in DOMAIN r[1] :
                        r[1][i] = "/" /\ out[b].syscall = SubSeq(r[1], 1, i - 1)})
        /\ out[b].max = Len(out[b].rows)
        /\ out[b].value <= out[b].max

\* a block with progress 1 of 2
C4_Witness ==
    /\ pc = "done"
    /\ \E b \in DOMAIN out : out[b].value = 1 /\ out[b].max = 2

(* C5: every row of the report is the row of a record of the manifest (its
   block the part of the id before the "/", its Test the part after, its
   Converted Yes exactly when the id is covered), and the complete report
   holds exactly one row for every record. *)
C5_OneRowPerRecord ==
    /\ \A bk \in RowPositions : \E r \in Range(records) : RowIsOf(bk, r)
    /\ pc = "done" =>
          \A r \in Range(records) :
              Cardinality({bk \in RowPositions : RowIsOf(bk, r)}) = 1

\* two records with one id and two descriptions, one more in another category
C5_Witness ==
    /\ pc = "done"
    /\ Len(records) = 3
    /\ \E i, j \in DOMAIN records : i # j /\ records[i][1] = records[j][1]
    /\ Len(out) = 2
    /\ \E b \in DOMAIN out : out[b].value = 2

SomeMalformedId == \E r \in Range(records) : ~ WellFormedId(r[1])

\* with a malformed id the run never prints and never ends normally, and a
\* failure of the grouping comes after reconciliation and before any output
C9_MalformedAborts ==
    /\ SomeMalformedId =>
          /\ out = <<>>
          /\ pc \notin {"print", "done"}
          /\ failed_at \in {"", "reconcile", "group"}
    /\ failed_at = "group" =>
          /\ pc = "error"
          /\ out = <<>>
          /\ ti = Len(tests_files)
          /\ tests_with_rust_files \cup tests_without_rust_files = Range(tests_files)

(* C9, as claimed: an id without exactly one "/" aborts the run at the
   grouping step, after reconciliation and before any report text; and a
   run whose ids all have exactly one "/" never fails at grouping. *)
C9_FailsOnlyOnMalformedId ==
    /\ C9_MalformedAborts
    /\ (ManifestRead /\ \A r \in Range(records) : WellFormedId(r[1])) =>
          failed_at # "group"

(* C9, amended: as claimed, but a run never fails at grouping when every
   manifest line has exactly two tab-separated fields and every id has
   exactly one "/"; a line with no tab or with two tabs fails at grouping
   whatever its id. *)
C9_FailsOnlyOnMalformedRecord ==
    /\ C9_MalformedAborts
    /\ (ManifestRead /\ \A r \in Range(records) : Len(r) = 2 /\ WellFormedId(r[1])) =>
          failed_at # "group"
    /\ (\E r \in Range(records) : Len(r) # 2) =>
          /\ out = <<>>
          /\ pc \notin {"print", "done"}

\* the grouping fails on a malformed id after a well-formed record was grouped
C9_Witness ==
    /\ failed_at = "group"
    /\ gi >= 1
    /\ Len(records[gi + 1]) = 2
    /\ ~ WellFormedId(records[gi + 1][1])
    /\ tests_with_rust_files # {}

-----------------------------------------------------------------------------
(* Vocabulary of the issue properties *)

Calls == SelectSeq(events, LAMBDA e : e.ev = "call")

\* text holds desc=" at p
OpensField(text, p) ==
    /\ p >= 1 /\ p + 5 <= Len(text)
    /\ text[p] = "d" /\ text[p + 1] = "e" /\ text[p + 2] = "s" /\ text[p + 3] = "c"
    /\ text[p + 4] = "=" /\ text[p + 5] = "\""

\* the field opened at p closes at q: the first quote after it, on the same line
ClosesField(text, p, q) ==
    /\ p + 6 <= q /\ q <= Len(text)
    /\ text[q] = "\""
    /\ \A j \in (p + 6)..(q - 1) : text[j] \notin {"\"", "\n"}

\* d is the text of the first field that lies within the first HeaderLen
\* characters of text, or the sentinel when no field lies there
IsDescriptor(text, d) ==
    LET n == IF Len(text) < HeaderLen THEN Len(text) ELSE HeaderLen
        P == {p \in 1..n : OpensField(text, p) /\ \E q \in (p + 6)..n : ClosesField(text, p, q)}
    IN  IF P = {}
          THEN d = <<"U", "n", "k", "n", "o", "w", "n", " ",
                     "d", "e", "s", "c", "r", "i", "p", "t", "i", "o", "n">>
          ELSE \E p \in P : \E q \in (p + 6)..n :
                  /\ ClosesField(text, p, q)
                  /\ \A other \in P : p <= other
                  /\ d = [i \in 1..(q - p - 6) |-> text[p + 5 + i]]

\* line is "- [ ] <file> | <d>" with d the descriptor of text
IsTaskLine(line, file, text) ==
    LET k == 6 + Len(file) + 3 IN
    /\ Len(line) >= k
    /\ [i \in 1..k |-> line[i]] =
          <<"-", " ", "[", " ", "]", " ">> \o file \o <<" ", "|", " ">>
    /\ IsDescriptor(text, [i \in 1..(Len(line) - k) |-> line[k + i]])

(* C7: gh issue create is called at most once per directory, in the order
   of the listing; every call but the first comes right after the previous
   call returned successfully and the delay followed it; when the script
   ends normally every directory has had its call and its issue; once a
   call fails or a file cannot be opened nothing more is called, the failed
   call is not retried and the issues created before stay as they are. *)
C7_SequentialDispatch ==
    /\ Len(Calls) <= Len(files)
    /\ \A k \in DOMAIN Calls : Calls[k].dir = files[k][1]
    /\ \A i \in DOMAIN events :
          (events[i].ev = "call" /\ i > 1) =>
              /\ i >= 4
              /\ events[i - 1].ev = "sleep"
              /\ events[i - 2].ev = "ok"
              /\ events[i - 3].ev = "call"
              /\ events[i - 2].dir = events[i - 3].dir
    /\ \A i \in DOMAIN events :
          events[i].ev = "fail" =>
              i = Len(events) /\ pc = "error" /\ failed_at = "gh"
    /\ failed_at = "open" =>
          /\ pc = "error"
          /\ \A k \in DOMAIN Calls : Calls[k].dir # files[di][1]
          /\ Len(Calls) = di - 1
    /\ failed_at = "gh" => Len(Calls) = di
    /\ Len(created) = Cardinality({i \in DOMAIN events : events[i].ev = "ok"})
    /\ \A k \in DOMAIN created : created[k].body.syscall = files[k][1]
    /\ pc = "done" =>
          /\ Len(Calls) = Len(files)
          /\ Len(created) = Len(files)

\* the second directory's call fails after the first directory's issue was created
C7_Witness ==
    /\ pc = "error"
    /\ failed_at = "gh"
    /\ Len(files) = 2
    /\ Len(created) = 1
    /\ Len(events) = 5

(* C8: the task list of a directory has one line per file read so far, in
   the order of the listing, each "- [ ] <filename> | <d>" with d the text
   of the first desc="..." field within the first HeaderLen (600)
   characters of the file and "Unknown description" when there is none; it is complete
   when gh is called; and only a file that cannot be opened aborts. *)
C8_TaskList ==
    /\ pc \in {"for_file", "create", "wait_gh", "sleep"} =>
          /\ Len(task_list) = fj
          /\ \A i \in 1..fj :
                LET file == files[di][2][i] IN
                IsTaskLine(task_list[i], file, fs[<<files[di][1], file>>].text)
    /\ pc \in {"create", "wait_gh", "sleep"} => fj = Len(files[di][2])
    /\ failed_at = "open" =>
          fs[<<files[di][1], files[di][2][fj + 1]>>].kind = "unreadable"

\* 2.t listed before 1.t: the first with a descriptor, the second without
C8_Witness ==
    /\ pc = "create"
    /\ files[di][2] = <<File2, File1>>
    /\ task_list = << <<"-", " ", "[", " ", "]", " ", "2", ".", "t", " ", "|", " ", "a", "b">>,
                      <<"-", " ", "[", " ", "]", " ", "1", ".", "t", " ", "|", " ",
                        "U", "n", "k", "n", "o", "w", "n", " ",
                        "d", "e", "s", "c", "r", "i", "p", "t", "i", "o", "n">> >>
    /\ fs[<<files[di][1], File1>>].text = HdrLate

=============================================================================
